---- MODULE Spec2Model ----
(***************************************************************************)
(* Resume / job-description match scoring (src/app.py), the parser of the  *)
(* LLM's feedback (src/src/resume_analyzer.py) and the PDF text extractor   *)
(* (src/src/pdf_extractor.py).                                             *)
(*                                                                         *)
(* Texts are sequences of one-character strings, so that split, strip,     *)
(* lower and the substring test are computed character by character.       *)
(* A Python value is a record [kind, chars]; kind "str" is a string and    *)
(* kind "NoneType" is None (chars is then unused).                         *)
(* A Python call is an outcome record [exc, val]: exc = NoExc when the     *)
(* call returned val, and the name of the exception when it raised.        *)
(***************************************************************************)
EXTENDS Integers, Sequences, FiniteSets, TLC

VARIABLES
    resume_text,      \* the resume text handed to the scorer (app.py:450)
    job_description,  \* the job description handed to the scorer (app.py:450)
    model_cache,      \* the st.cache_resource entry of load_sentence_transformer
    cache_lock,       \* holder of the cache's compute lock, 0 when free
    constructor_runs, \* how many times SentenceTransformer(...) was constructed
    calls,            \* per scoring call: position, model, outcome, feedback
    score,            \* the score handed to get_score_feedback on its own
    feedback,         \* the tuple it returned, NoFeedback before
    result,           \* the LLM result handed to _parse_analysis_result
    analysis,         \* what _parse_analysis_result did with it, NoAnalysis before
    pdf_file,         \* the uploaded file handed to PDFExtractor.extract_text
    extraction        \* the extract_text call: position, what each library did

vars == <<resume_text, job_description, model_cache, cache_lock,
          constructor_runs, calls, score, feedback,
          result, analysis, pdf_file, extraction>>

\* the variables of the scoring calls, and those of the parser and extractor
scoring_vars == <<resume_text, job_description, model_cache, cache_lock,
                  constructor_runs, calls, score, feedback>>

document_vars == <<result, analysis, pdf_file, extraction>>

----------------------------------------------------------------------------
(* Python values and call outcomes *)

NoExc == "none"

Str(s) == [kind |-> "str", chars |-> s]

NoneVal == [kind |-> "NoneType", chars |-> <<>>]

IsStr(v) == v.kind = "str"

Return(v) == [exc |-> NoExc, val |-> v]

Raise(e) == [exc |-> e, val |-> 0]

Max(a, b) == IF a >= b THEN a ELSE b

Min(a, b) == IF a <= b THEN a ELSE b

----------------------------------------------------------------------------
(* str methods used by the scorers *)

Whitespace == {" ", "\t", "\n", "\r"}

UpperToLower ==
    [A |-> "a", B |-> "b", C |-> "c", D |-> "d", E |-> "e", F |-> "f", G |-> "g",
     H |-> "h", I |-> "i", J |-> "j", K |-> "k", L |-> "l", M |-> "m", N |-> "n",
     O |-> "o", P |-> "p", Q |-> "q", R |-> "r", S |-> "s", T |-> "t", U |-> "u",
     V |-> "v", W |-> "w", X |-> "x", Y |-> "y", Z |-> "z"]

\* str.lower(): every cased character mapped to lowercase, the rest kept
Lower(s) ==
    [i \in 1..Len(s) |-> IF s[i] \in DOMAIN UpperToLower THEN UpperToLower[s[i]] ELSE s[i]]

\* str.strip(): leading and trailing whitespace removed
Strip(s) ==
    LET inked == {i \in 1..Len(s) : s[i] \notin Whitespace}
    IN  IF inked = {} THEN <<>>
        ELSE SubSeq(s, CHOOSE i \in inked : \A j \in inked : i <= j,
                       CHOOSE i \in inked : \A j \in inked : i >= j)

\* the position of the k-th separator of s; 0 for k = 0 and Len(s) + 1
\* past the last separator
SepAt(s, sep, k) ==
    LET at == {i \in 1..Len(s) : s[i] = sep}
    IN  IF k = 0 THEN 0
        ELSE IF k > Cardinality(at) THEN Len(s) + 1
        ELSE CHOOSE i \in at : Cardinality({j \in at : j <= i}) = k

\* str.split(sep) for a one-character sep: the spans between separators,
\* empty spans included; "".split(".") is [""]
Split(s, sep) ==
    LET n == Cardinality({i \in 1..Len(s) : s[i] = sep})
    IN  [k \in 1..(n + 1) |-> SubSeq(s, SepAt(s, sep, k - 1) + 1, SepAt(s, sep, k) - 1)]

\* the term matched as a whole word only: no letter right before or after it
ContainsWord(text, term) ==
    LET letters == {UpperToLower[u] : u \in DOMAIN UpperToLower}
    IN  \E i \in 0..(Len(text) - Len(term)) :
            /\ \A k \in 1..Len(term) : text[i + k] = term[k]
            /\ i > 0 => text[i] \notin letters
            /\ i + Len(term) < Len(text) => text[i + Len(term) + 1] \notin letters

\* `term in text`: term occurs as a contiguous substring of text
Contains(text, term) ==
    \E i \in 0..(Len(text) - Len(term)) : \A k \in 1..Len(term) : text[i + k] = term[k]

----------------------------------------------------------------------------
(* The skill dictionaries of calculate_keyword_fallback_score *)

technical_skills == <<
    <<"p", "y", "t", "h", "o", "n">>,
    <<"j", "a", "v", "a">>,
    <<"j", "a", "v", "a", "s", "c", "r", "i", "p", "t">>,
    <<"r", "e", "a", "c", "t">>,
    <<"n", "o", "d", "e">>,
    <<"s", "q", "l">>,
    <<"m", "o", "n", "g", "o", "d", "b">>,
    <<"a", "w", "s">>,
    <<"d", "o", "c", "k", "e", "r">>,
    <<"k", "u", "b", "e", "r", "n", "e", "t", "e", "s">>,
    <<"g", "i", "t">>,
    <<"h", "t", "m", "l">>,
    <<"c", "s", "s">>,
    <<"a", "n", "g", "u", "l", "a", "r">>,
    <<"v", "u", "e">>,
    <<"p", "h", "p">>,
    <<"c", "+", "+">>,
    <<"c", "#">>,
    <<".", "n", "e", "t">>,
    <<"s", "p", "r", "i", "n", "g">>,
    <<"d", "j", "a", "n", "g", "o">>,
    <<"f", "l", "a", "s", "k">>,
    <<"e", "x", "p", "r", "e", "s", "s">>,
    <<"m", "y", "s", "q", "l">>,
    <<"p", "o", "s", "t", "g", "r", "e", "s", "q", "l">>,
    <<"r", "e", "d", "i", "s">>,
    <<"e", "l", "a", "s", "t", "i", "c", "s", "e", "a", "r", "c", "h">>,
    <<"m", "a", "c", "h", "i", "n", "e", " ", "l", "e", "a", "r", "n", "i", "n", "g">>,
    <<"a", "i">>,
    <<"d", "a", "t", "a", " ", "s", "c", "i", "e", "n", "c", "e">>,
    <<"t", "e", "n", "s", "o", "r", "f", "l", "o", "w">>,
    <<"p", "y", "t", "o", "r", "c", "h">>,
    <<"p", "a", "n", "d", "a", "s">>,
    <<"n", "u", "m", "p", "y">>,
    <<"a", "p", "i">>,
    <<"r", "e", "s", "t">>,
    <<"g", "r", "a", "p", "h", "q", "l">>,
    <<"m", "i", "c", "r", "o", "s", "e", "r", "v", "i", "c", "e", "s">>,
    <<"d", "e", "v", "o", "p", "s">>,
    <<"c", "i", "/", "c", "d">>,
    <<"j", "e", "n", "k", "i", "n", "s">>,
    <<"t", "e", "r", "r", "a", "f", "o", "r", "m">>,
    <<"a", "z", "u", "r", "e">>,
    <<"g", "c", "p">>,
    <<"l", "i", "n", "u", "x">>,
    <<"w", "i", "n", "d", "o", "w", "s">>,
    <<"a", "n", "d", "r", "o", "i", "d">>,
    <<"i", "o", "s">>,
    <<"s", "w", "i", "f", "t">>,
    <<"k", "o", "t", "l", "i", "n">>,
    <<"f", "l", "u", "t", "t", "e", "r">>,
    <<"b", "l", "o", "c", "k", "c", "h", "a", "i", "n">>,
    <<"s", "o", "l", "i", "d", "i", "t", "y">>,
    <<"w", "e", "b", "3">>,
    <<"r", "u", "s", "t">>,
    <<"g", "o">>,
    <<"s", "c", "a", "l", "a">>,
    <<"r">>,
    <<"m", "a", "t", "l", "a", "b">>,
    <<"t", "a", "b", "l", "e", "a", "u">> >>

soft_skills == <<
    <<"l", "e", "a", "d", "e", "r", "s", "h", "i", "p">>,
    <<"c", "o", "m", "m", "u", "n", "i", "c", "a", "t", "i", "o", "n">>,
    <<"t", "e", "a", "m", "w", "o", "r", "k">>,
    <<"p", "r", "o", "b", "l", "e", "m", " ", "s", "o", "l", "v", "i", "n", "g">>,
    <<"a", "n", "a", "l", "y", "t", "i", "c", "a", "l">>,
    <<"p", "r", "o", "j", "e", "c", "t", " ", "m", "a", "n", "a", "g", "e", "m", "e", "n", "t">>,
    <<"a", "g", "i", "l", "e">>,
    <<"s", "c", "r", "u", "m">>,
    <<"c", "o", "l", "l", "a", "b", "o", "r", "a", "t", "i", "o", "n">>,
    <<"m", "e", "n", "t", "o", "r", "i", "n", "g">>,
    <<"c", "r", "e", "a", "t", "i", "v", "i", "t", "y">>,
    <<"a", "d", "a", "p", "t", "a", "b", "i", "l", "i", "t", "y">>,
    <<"t", "i", "m", "e", " ", "m", "a", "n", "a", "g", "e", "m", "e", "n", "t">>,
    <<"c", "r", "i", "t", "i", "c", "a", "l", " ", "t", "h", "i", "n", "k", "i", "n", "g">>,
    <<"d", "e", "c", "i", "s", "i", "o", "n", " ", "m", "a", "k", "i", "n", "g">> >>

----------------------------------------------------------------------------
(* Python float arithmetic (IEEE-754 binary64, round to nearest, ties to   *)
(* even) on the nonnegative values the fallback scorer computes.           *)
(* A natural number is a little-endian sequence of limbs in base Base, and *)
(* a float is [m, e] with value m * 2^e.                                   *)

Base == 32768

LimbBits == 15

MantissaBits == 53

Pow2(n) == 2 ^ n

RECURSIVE BigNorm(_)
BigNorm(x) ==
    IF x # <<>> /\ x[Len(x)] = 0 THEN BigNorm(SubSeq(x, 1, Len(x) - 1)) ELSE x

RECURSIVE BigFromNat(_)
BigFromNat(n) == IF n = 0 THEN <<>> ELSE <<n % Base>> \o BigFromNat(n \div Base)

RECURSIVE BigToNat(_)
BigToNat(x) == IF x = <<>> THEN 0 ELSE Head(x) + Base * BigToNat(Tail(x))

Limb(x, i) == IF i >= 1 /\ i <= Len(x) THEN x[i] ELSE 0

RECURSIVE BigAddFrom(_, _, _, _)
BigAddFrom(x, y, i, carry) ==
    IF i > Len(x) /\ i > Len(y) THEN (IF carry = 0 THEN <<>> ELSE <<carry>>)
    ELSE LET s == Limb(x, i) + Limb(y, i) + carry
         IN  <<s % Base>> \o BigAddFrom(x, y, i + 1, s \div Base)

BigAdd(x, y) == BigAddFrom(x, y, 1, 0)

RECURSIVE BigMulSmallFrom(_, _, _, _)
BigMulSmallFrom(x, k, i, carry) ==
    IF i > Len(x) THEN (IF carry = 0 THEN <<>> ELSE <<carry>>)
    ELSE LET p == x[i] * k + carry
         IN  <<p % Base>> \o BigMulSmallFrom(x, k, i + 1, p \div Base)

\* x * k for 0 <= k < Base
BigMulSmall(x, k) == BigNorm(BigMulSmallFrom(x, k, 1, 0))

RECURSIVE BigMul(_, _)
BigMul(x, y) ==
    IF y = <<>> THEN <<>>
    ELSE BigNorm(BigAdd(BigMulSmall(x, Head(y)), <<0>> \o BigMul(x, Tail(y))))

\* number of significant bits of a limb, of a natural
RECURSIVE NatBitLen(_)
NatBitLen(n) == IF n = 0 THEN 0 ELSE 1 + NatBitLen(n \div 2)

BigBitLen(x) ==
    IF x = <<>> THEN 0 ELSE (Len(x) - 1) * LimbBits + NatBitLen(x[Len(x)])

\* bit i (bit 0 is the least significant)
BigBit(x, i) == (Limb(x, (i \div LimbBits) + 1) \div Pow2(i % LimbBits)) % 2

\* floor(x / 2^s)
BigShiftRight(x, s) ==
    LET q == s \div LimbBits
        r == s % LimbBits
    IN  BigNorm([j \in 1..Max(Len(x) - q, 0) |->
                    (Limb(x, j + q) \div Pow2(r))
                    + (Limb(x, j + q + 1) % Pow2(r)) * Pow2(LimbBits - r)])

\* x * 2^s
BigShiftLeft(x, s) ==
    IF x = <<>> THEN <<>>
    ELSE [j \in 1..(s \div LimbBits) |-> 0] \o BigMulSmall(x, Pow2(s % LimbBits))

\* x mod 2^s = 0
BigLowZero(x, s) ==
    /\ \A j \in 1..(s \div LimbBits) : Limb(x, j) = 0
    /\ Limb(x, (s \div LimbBits) + 1) % Pow2(s % LimbBits) = 0

\* (the number made of limbs i and above) mod b, for 1 <= b < Base
RECURSIVE BigRemFrom(_, _, _)
BigRemFrom(x, b, i) ==
    IF i > Len(x) THEN 0 ELSE (BigRemFrom(x, b, i + 1) * Base + x[i]) % b

\* floor(x / b) for 1 <= b < Base: long division, limb by limb
BigDivSmall(x, b) ==
    BigNorm([i \in 1..Len(x) |-> (BigRemFrom(x, b, i + 1) * Base + x[i]) \div b])

FloatZero == [m |-> <<>>, e |-> 0]

\* the nearest float to m * 2^e, ties to the even mantissa
FloatRound(m, e) ==
    LET len == BigBitLen(m)
        s   == len - MantissaBits
    IN  IF s <= 0 THEN [m |-> m, e |-> e]
        ELSE LET q      == BigShiftRight(m, s)
                 guard  == BigBit(m, s - 1)
                 sticky == ~BigLowZero(m, s - 1)
                 up     == guard = 1 /\ (sticky \/ BigBit(q, 0) = 1)
             IN  [m |-> IF up THEN BigAdd(q, <<1>>) ELSE q, e |-> e + s]

\* float(n) for a natural n < 2^31
FloatFromNat(n) == [m |-> BigFromNat(n), e |-> 0]

\* a / b for naturals a, 1 <= b < 64 (int / int true division, correctly
\* rounded): the quotient of a * 2^60 by b, with a sticky bit for the remainder
FloatDiv(a, b) ==
    IF a = 0 THEN FloatZero
    ELSE LET x  == BigShiftLeft(BigFromNat(a), 60)
             q2 == BigAdd(BigShiftLeft(BigDivSmall(x, b), 1),
                          IF BigRemFrom(x, b, 1) = 0 THEN <<>> ELSE <<1>>)
         IN  FloatRound(q2, -61)

FloatMul(x, y) == FloatRound(BigMul(x.m, y.m), x.e + y.e)

FloatAdd(x, y) ==
    IF x.m = <<>> THEN y
    ELSE IF y.m = <<>> THEN x
    ELSE LET e == Min(x.e, y.e)
         IN  FloatRound(BigAdd(BigShiftLeft(x.m, x.e - e), BigShiftLeft(y.m, y.e - e)), e)

\* int(x): truncation toward zero (x >= 0 here)
FloatTrunc(x) ==
    IF x.e >= 0 THEN BigToNat(BigShiftLeft(x.m, x.e))
    ELSE BigToNat(BigShiftRight(x.m, -x.e))

\* x = n for a float x and a natural n
FloatIsNat(x, n) ==
    IF x.e >= 0 THEN BigToNat(BigShiftLeft(x.m, x.e)) = n
    ELSE BigLowZero(x.m, -x.e) /\ BigToNat(BigShiftRight(x.m, -x.e)) = n

----------------------------------------------------------------------------
(* calculate_keyword_fallback_score (app.py:59-101) *)

FallbackDefault == 50

FallbackFloor == 15

FallbackCeiling == 90

TechnicalDefault == 60

SoftDefault == 70

\* the soft-skill weight used for the technical score as well
TechnicalWeightAsSoft == FloatDiv(3, 10)

\* the literals 0.7 and 0.3: the floats nearest to 7/10 and 3/10
TechnicalWeight == FloatDiv(7, 10)

SoftWeight == FloatDiv(3, 10)

\* the clamp without its ceiling
FallbackClampNoCeiling(n) == Max(FallbackFloor, n)

\* max(15, min(90, n))
FallbackClamp(n) == Max(FallbackFloor, Min(FallbackCeiling, n))

\* [skill for skill in skills if skill in text]
SkillsIn(skills, text) == SelectSeq(skills, LAMBDA skill : Contains(text, skill))

\* the quotient without the default for an empty wanted list
CategoryScoreNoDefault(matched, wanted, default) ==
    FloatMul(FloatDiv(Len(matched), Max(Len(wanted), 1)), FloatFromNat(100))

\* (len(matched) / max(len(wanted), 1)) * 100 if wanted else default
CategoryScore(matched, wanted, default) ==
    IF wanted # <<>>
    THEN FloatMul(FloatDiv(Len(matched), Max(Len(wanted), 1)), FloatFromNat(100))
    ELSE FloatFromNat(default)

\* the resume matched against the whole dictionaries instead of the job
\* description's terms
FallbackLocalsAllTerms(resume, jd) ==
    LET resume_lower     == Lower(resume)
        jd_lower         == Lower(jd)
        jd_technical     == SkillsIn(technical_skills, jd_lower)
        jd_soft          == SkillsIn(soft_skills, jd_lower)
        resume_technical == SkillsIn(technical_skills, resume_lower)
        resume_soft      == SkillsIn(soft_skills, resume_lower)
        technical_score  == CategoryScore(resume_technical, jd_technical, TechnicalDefault)
        soft_score       == CategoryScore(resume_soft, jd_soft, SoftDefault)
        weighted_score   == FloatAdd(FloatMul(technical_score, TechnicalWeight),
                                     FloatMul(soft_score, SoftWeight))
    IN  [jd_technical     |-> jd_technical,
         jd_soft          |-> jd_soft,
         resume_technical |-> resume_technical,
         resume_soft      |-> resume_soft,
         technical_score  |-> technical_score,
         soft_score       |-> soft_score,
         weighted_score   |-> weighted_score,
         score            |-> FallbackClamp(FloatTrunc(weighted_score))]

\* the locals of the try block, for string arguments
FallbackLocals(resume, jd) ==
    LET resume_lower     == Lower(resume)
        jd_lower         == Lower(jd)
        jd_technical     == SkillsIn(technical_skills, jd_lower)
        jd_soft          == SkillsIn(soft_skills, jd_lower)
        resume_technical == SkillsIn(jd_technical, resume_lower)
        resume_soft      == SkillsIn(jd_soft, resume_lower)
        technical_score  == CategoryScore(resume_technical, jd_technical, TechnicalDefault)
        soft_score       == CategoryScore(resume_soft, jd_soft, SoftDefault)
        weighted_score   == FloatAdd(FloatMul(technical_score, TechnicalWeight),
                                     FloatMul(soft_score, SoftWeight))
    IN  [jd_technical     |-> jd_technical,
         jd_soft          |-> jd_soft,
         resume_technical |-> resume_technical,
         resume_soft      |-> resume_soft,
         technical_score  |-> technical_score,
         soft_score       |-> soft_score,
         weighted_score   |-> weighted_score,
         score            |-> FallbackClamp(FloatTrunc(weighted_score))]

\* the try block: .lower() on a value that is not a string raises
FallbackTry(resume_value, jd_value) ==
    IF ~IsStr(resume_value) \/ ~IsStr(jd_value) THEN Raise("AttributeError")
    ELSE Return(FallbackLocals(resume_value.chars, jd_value.chars).score)

\* the body without its except clause
calculate_keyword_fallback_score_unguarded(resume_value, jd_value) ==
    FallbackTry(resume_value, jd_value)

\* try: ... except Exception: return 50
calculate_keyword_fallback_score(resume_value, jd_value) ==
    LET body == FallbackTry(resume_value, jd_value)
    IN  IF body.exc # NoExc THEN Return(FallbackDefault) ELSE body

----------------------------------------------------------------------------
(* The embedding backend: SentenceTransformer.encode and cosine_similarity *)
(* (app.py:38-42).  A loaded model is [seed]; it maps a unit to a unit     *)
(* vector at an angle that is a multiple of a fixed step, a deterministic  *)
(* function of the model and the unit.  Similarities are in thousandths.   *)

\* cos(k * step) for k = 0, 1, 2, 3, 4, in thousandths
CosTable == <<1000, 796, 267, -371, -857>>

NumAngles == Len(CosTable)

Abs(n) == IF n >= 0 THEN n ELSE -n

\* what one encode call does: returns unit vectors, raises, returns vectors
\* with NaN components, or returns all-zero vectors
EncodeBehaviours == {"ok", "raise", "nan", "zero"}

\* the behaviour recorded for a call that never reaches model.encode
NotEncoded == "unused"

\* model.encode(units): one embedding per unit, in order
Encode(model, units, behaviour) ==
    [i \in 1..Len(units) |->
        IF behaviour = "ok"
        THEN [kind |-> "unit", angle |-> (Len(units[i]) * (model.seed + 1) + model.seed) % NumAngles]
        ELSE [kind |-> behaviour, angle |-> 0]]

\* cosine_similarity(X, Y): raises on NaN input; a zero vector has
\* similarity 0 with every vector
HasNaN(embeddings) == \E i \in 1..Len(embeddings) : embeddings[i].kind = "nan"

CosineCell(a, b) ==
    IF a.kind = "unit" /\ b.kind = "unit" THEN CosTable[Abs(a.angle - b.angle) + 1] ELSE 0

cosine_similarity(X, Y) ==
    IF HasNaN(X) \/ HasNaN(Y) THEN Raise("ValueError")
    ELSE Return([i \in 1..Len(X) |-> [j \in 1..Len(Y) |-> CosineCell(X[i], Y[j])]])

----------------------------------------------------------------------------
(* calculate_semantic_similarity (app.py:21-57) *)

MinSentenceLen == 10

MinSentences == 3

SemanticFloor == 10

SemanticCeiling == 95

\* the clamp without its ceiling
SemanticClampNoCeiling(n) == Max(SemanticFloor, n)

\* max(10, min(95, n))
SemanticClamp(n) == Max(SemanticFloor, Min(SemanticCeiling, n))

\* the spans kept as they are, unstripped
SentencesUnstripped(text) ==
    SelectSeq(Split(text, "."), LAMBDA sent : Len(Strip(sent)) > MinSentenceLen)

\* [sent.strip() for sent in text.split('.') if len(sent.strip()) > 10]
Sentences(text) ==
    LET spans == Split(text, ".")
        kept  == SelectSeq(spans, LAMBDA sent : Len(Strip(sent)) > MinSentenceLen)
    IN  [i \in 1..Len(kept) |-> Strip(kept[i])]

\* the collapse taken only below 2 sentences
SegmentBelowTwo(text) ==
    LET sentences == Sentences(text)
    IN  IF Len(sentences) < MinSentences - 1 THEN <<text>> ELSE sentences

\* lines 28-35: the units handed to model.encode
Segment(text) ==
    LET sentences == Sentences(text)
    IN  IF Len(sentences) < MinSentences THEN <<text>> ELSE sentences

RECURSIVE SeqMax(_)
SeqMax(xs) == IF Len(xs) = 1 THEN xs[1] ELSE Max(Head(xs), SeqMax(Tail(xs)))

RECURSIVE SeqSum(_)
SeqSum(xs) == IF xs = <<>> THEN 0 ELSE Head(xs) + SeqSum(Tail(xs))

\* int(a / b) for b > 0: truncation toward zero
TruncDiv(a, b) == IF a >= 0 THEN a \div b ELSE -((-a) \div b)

RECURSIVE SeqMin(_)
SeqMin(xs) == IF Len(xs) = 1 THEN xs[1] ELSE Min(Head(xs), SeqMin(Tail(xs)))

\* the row minimum in place of the row maximum
RowMin(matrix) == [i \in 1..Len(matrix) |-> SeqMin(matrix[i])]

\* the maximum along the other axis: one value per job-description unit
ColumnMax(matrix) ==
    [j \in 1..Len(matrix[1]) |-> SeqMax([i \in 1..Len(matrix) |-> matrix[i][j]])]

\* np.max(similarity_matrix, axis=1)
RowMax(matrix) == [i \in 1..Len(matrix) |-> SeqMax(matrix[i])]

\* the percentage rounded to the nearest integer instead of truncated
PercentageScoreRounded(max_similarities) ==
    LET a == SeqSum(max_similarities) * 100
        b == Len(max_similarities) * 1000
    IN  IF a >= 0 THEN (2 * a + b) \div (2 * b) ELSE -((2 * (-a) + b) \div (2 * b))

\* int(np.mean(max_similarities) * 100), similarities in thousandths
PercentageScore(max_similarities) ==
    TruncDiv(SeqSum(max_similarities) * 100, Len(max_similarities) * 1000)

\* the locals of a try block that did not get as far as line 45
NoLocals == [max_similarities |-> <<>>, percentage_score |-> 0]

\* the try block (lines 24-53), given what load_sentence_transformer() did;
\* the result records the units handed to encode and the locals
\* max_similarities and percentage_score
SemanticTry(load, resume_value, jd_value, behaviour) ==
    IF load.exc # NoExc
    THEN [exc |-> load.exc, val |-> 0, encoded |-> <<>>, locals |-> NoLocals]
    ELSE IF ~IsStr(resume_value) \/ ~IsStr(jd_value)
    THEN [exc |-> "AttributeError", val |-> 0, encoded |-> <<>>, locals |-> NoLocals]
    ELSE LET resume_sentences == Segment(resume_value.chars)
             jd_sentences     == Segment(jd_value.chars)
             encoded          == <<resume_sentences, jd_sentences>>
         IN  IF behaviour = "raise"
             THEN [exc |-> "RuntimeError", val |-> 0, encoded |-> encoded, locals |-> NoLocals]
             ELSE LET resume_embeddings == Encode(load.val, resume_sentences, behaviour)
                      jd_embeddings     == Encode(load.val, jd_sentences, behaviour)
                      similarity_matrix == cosine_similarity(resume_embeddings, jd_embeddings)
                  IN  IF similarity_matrix.exc # NoExc
                      THEN [exc |-> similarity_matrix.exc, val |-> 0, encoded |-> encoded,
                            locals |-> NoLocals]
                      ELSE LET max_similarities == RowMax(similarity_matrix.val)
                               percentage_score == PercentageScore(max_similarities)
                           IN  [exc |-> NoExc,
                                val |-> SemanticClamp(percentage_score),
                                encoded |-> encoded,
                                locals |-> [max_similarities |-> max_similarities,
                                            percentage_score |-> percentage_score]]

\* the except clause handing the fallback scorer its arguments swapped
calculate_semantic_similarity_swapped(load, resume_value, jd_value, behaviour) ==
    LET body == SemanticTry(load, resume_value, jd_value, behaviour)
    IN  IF body.exc = NoExc
        THEN [exc |-> NoExc, val |-> body.val, path |-> "semantic", caught |-> NoExc,
              encoded |-> body.encoded, locals |-> body.locals, fallback_args |-> <<>>]
        ELSE LET fb == calculate_keyword_fallback_score(jd_value, resume_value)
             IN  [exc |-> fb.exc, val |-> fb.val, path |-> "fallback", caught |-> body.exc,
                  encoded |-> body.encoded, locals |-> body.locals,
                  fallback_args |-> <<jd_value, resume_value>>]

\* try: ... except Exception as e: st.error(...); return fallback(...)
\* The result records the path taken, the exception caught, the units
\* handed to encode, the locals of the try block and the arguments handed to
\* the fallback scorer.
calculate_semantic_similarity(load, resume_value, jd_value, behaviour) ==
    LET body == SemanticTry(load, resume_value, jd_value, behaviour)
    IN  IF body.exc = NoExc
        THEN [exc |-> NoExc, val |-> body.val, path |-> "semantic", caught |-> NoExc,
              encoded |-> body.encoded, locals |-> body.locals, fallback_args |-> <<>>]
        ELSE LET fb == calculate_keyword_fallback_score(resume_value, jd_value)
             IN  [exc |-> fb.exc, val |-> fb.val, path |-> "fallback", caught |-> body.exc,
                  encoded |-> body.encoded, locals |-> body.locals,
                  fallback_args |-> <<resume_value, jd_value>>]

----------------------------------------------------------------------------
(* get_score_feedback (app.py:130-141): (message, type, color, bg_color).  *)
(* The messages are given without their leading emoji.                     *)

get_score_feedback_exclusive(s) ==
    IF s > 80
    THEN <<"Excellent match! Your resume aligns very well with this job.",
           "success", "#28a745", "#d4edda">>
    ELSE IF s > 65
    THEN <<"Good match! Consider highlighting relevant skills more prominently.",
           "info", "#17a2b8", "#d1ecf1">>
    ELSE IF s > 45
    THEN <<"Moderate match. You may want to tailor your resume for this role.",
           "warning", "#ffc107", "#fff3cd">>
    ELSE IF s > 25
    THEN <<"Low match. Consider significant resume adjustments for this position.",
           "error", "#dc3545", "#f8d7da">>
    ELSE <<"Very low match. This role may not be suitable or resume needs major updates.",
           "error", "#dc3545", "#f8d7da">>

get_score_feedback(s) ==
    IF s >= 80
    THEN <<"Excellent match! Your resume aligns very well with this job.",
           "success", "#28a745", "#d4edda">>
    ELSE IF s >= 65
    THEN <<"Good match! Consider highlighting relevant skills more prominently.",
           "info", "#17a2b8", "#d1ecf1">>
    ELSE IF s >= 45
    THEN <<"Moderate match. You may want to tailor your resume for this role.",
           "warning", "#ffc107", "#fff3cd">>
    ELSE IF s >= 25
    THEN <<"Low match. Consider significant resume adjustments for this position.",
           "error", "#dc3545", "#f8d7da">>
    ELSE <<"Very low match. This role may not be suitable or resume needs major updates.",
           "error", "#dc3545", "#f8d7da">>

----------------------------------------------------------------------------
(* ResumeAnalyzer._parse_analysis_result (resume_analyzer.py:132-164).      *)
(* The analysis is a mapping from the six keys to Python values.            *)

\* the section headers the six patterns start with (lines 139-144)
Header ==
    [skills_match |->
        <<"S", "k", "i", "l", "l", "s", " ", "M", "a", "t", "c", "h", ":">>,
     missing_skills |->
        <<"M", "i", "s", "s", "i", "n", "g", " ", "S", "k", "i", "l", "l", "s", ":">>,
     improvement_tips |->
        <<"I", "m", "p", "r", "o", "v", "e", "m", "e", "n", "t", " ", "T", "i", "p", "s", ":">>,
     overall_score |->
        <<"O", "v", "e", "r", "a", "l", "l", " ", "S", "c", "o", "r", "e", ":">>,
     strengths |->
        <<"S", "t", "r", "e", "n", "g", "t", "h", "s", ":">>,
     weaknesses |->
        <<"W", "e", "a", "k", "n", "e", "s", "s", "e", "s", ":">>]

Keys == DOMAIN Header

\* the header in each pattern's lookahead, <<>> for the last pattern, which
\* has none
StopHeader ==
    [skills_match     |-> Header.missing_skills,
     missing_skills   |-> Header.improvement_tips,
     improvement_tips |-> Header.overall_score,
     overall_score    |-> Header.strengths,
     strengths        |-> Header.weaknesses,
     weaknesses       |-> <<>>]

\* result[:500]
PrefixLen == 500

\* what a key gets when its pattern does not match (lines 146-151)
Default(text) ==
    [skills_match     |-> <<"A", "n", "a", "l", "y", "s", "i", "s", " ", "c", "o", "m", "p", "l",
        "e", "t", "e", "d">>,
     missing_skills   |-> <<"S", "e", "e", " ", "f", "u", "l", "l", " ", "a", "n", "a", "l", "y",
         "s", "i", "s">>,
     improvement_tips |-> SubSeq(text, 1, Min(Len(text), PrefixLen)),
     overall_score    |-> <<"N", "/", "A">>,
     strengths        |-> <<"A", "n", "a", "l", "y", "s", "i", "s", " ", "c", "o", "m", "p", "l",
         "e", "t", "e", "d">>,
     weaknesses       |-> <<"S", "e", "e", " ", "i", "m", "p", "r", "o", "v", "e", "m", "e", "n",
         "t", " ", "t", "i", "p", "s">>]

\* the header is at offset i of the text (i characters before it)
HeaderAt(text, header, i) ==
    /\ i + Len(header) <= Len(text)
    /\ \A k \in 1..Len(header) : text[i + k] = header[k]

\* $ without re.MULTILINE: the end of the text, or just before a newline that
\* ends it
AtDollar(text, e) == e = Len(text) \/ (e = Len(text) - 1 /\ text[Len(text)] = "\n")

\* the lookahead (?=stop|$), or the $ of the last pattern, at offset e
AtLookahead(text, stop, e) ==
    (stop # <<>> /\ HeaderAt(text, stop, e)) \/ AtDollar(text, e)

NoMatch == [matched |-> FALSE, group |-> <<>>]

\* re.search(header(.+?)(?=stop|$), text, re.DOTALL): the leftmost header
\* that has a character after it, then the fewest characters, at least one,
\* up to an offset where the lookahead holds
re_search(header, stop, text) ==
    LET starts == {i \in 0..(Len(text) - Len(header) - 1) : HeaderAt(text, header, i)}
    IN  IF starts = {} THEN NoMatch
        ELSE LET s    == CHOOSE i \in starts : \A j \in starts : i <= j
                 a    == s + Len(header)
                 ends == {e \in (a + 1)..Len(text) : AtLookahead(text, stop, e)}
                 e    == CHOOSE x \in ends : \A y \in ends : x <= y
             IN  [matched |-> TRUE, group |-> SubSeq(text, a + 1, e)]

\* m.group(1).strip() if m else default
SectionValue(key, text) ==
    LET m == re_search(Header[key], StopHeader[key], text)
    IN  IF m.matched THEN Strip(m.group) ELSE Default(text)[key]

\* the try block without the defaults: .group(1) on a pattern that did not
\* match raises
ParseTryNoDefaults(result_value) ==
    IF ~IsStr(result_value) THEN Raise("TypeError")
    ELSE IF \E key \in Keys :
                ~re_search(Header[key], StopHeader[key], result_value.chars).matched
    THEN Raise("AttributeError")
    ELSE Return([key \in Keys |-> Str(SectionValue(key, result_value.chars))])

\* the try block: re.search on a value that is not a string raises
ParseTry(result_value) ==
    IF ~IsStr(result_value) THEN Raise("TypeError")
    ELSE Return([key \in Keys |-> Str(SectionValue(key, result_value.chars))])

\* the mapping of the except clause (lines 157-164)
ExceptAnalysis(result_value) ==
    [skills_match     |-> Str(<<"A", "n", "a", "l", "y", "s", "i", "s", " ", "c", "o", "m", "p",
        "l", "e", "t", "e", "d", " ", "-", " ", "s", "e", "e", " ", "d", "e", "t", "a", "i", "l",
        "e", "d", " ", "f", "e", "e", "d", "b", "a", "c", "k", " ", "b", "e", "l", "o", "w">>),
     missing_skills   |-> Str(<<"A", "n", "a", "l", "y", "s", "i", "s", " ", "c", "o", "m", "p",
         "l", "e", "t", "e", "d", " ", "-", " ", "s", "e", "e", " ", "d", "e", "t", "a", "i",
         "l", "e", "d", " ", "f", "e", "e", "d", "b", "a", "c", "k", " ", "b", "e", "l", "o",
         "w">>),
     improvement_tips |-> result_value,
     overall_score    |-> Str(<<"N", "/", "A">>),
     strengths        |-> Str(<<"A", "n", "a", "l", "y", "s", "i", "s", " ", "c", "o", "m", "p",
         "l", "e", "t", "e", "d">>),
     weaknesses       |-> Str(<<"S", "e", "e", " ", "d", "e", "t", "a", "i", "l", "e", "d", " ",
         "f", "e", "e", "d", "b", "a", "c", "k">>)]

\* try: ... except Exception: return {...}.  The outcome records the
\* exception the except clause caught.
parse_analysis_result(result_value) ==
    LET body == ParseTry(result_value)
    IN  IF body.exc = NoExc
        THEN [exc |-> NoExc, val |-> body.val, caught |-> NoExc]
        ELSE [exc |-> NoExc, val |-> ExceptAnalysis(result_value), caught |-> body.exc]

----------------------------------------------------------------------------
(* PDFExtractor (pdf_extractor.py:12-61).  The uploaded file is a byte     *)
(* stream with a read position; its content is given as the sequence of    *)
(* its pages, each the text the page holds.  What PyMuPDF and pdfminer do  *)
(* with the bytes they are given is up to them: either may raise.          *)

\* pdf_file.read(): everything from the position to the end, and the
\* position moves to the end
Read(file) ==
    [bytes |-> SubSeq(file.content, file.pos + 1, Len(file.content)),
     file  |-> [file EXCEPT !.pos = Len(file.content)]]

\* pdf_file.seek(n)
Seek(file, n) == [file EXCEPT !.pos = n]

\* text += page.get_text() over the pages
RECURSIVE PagesText(_)
PagesText(pages) == IF pages = <<>> THEN <<>> ELSE Head(pages) \o PagesText(Tail(pages))

\* fitz.open raises, page.get_text raises, or neither
PyMuPDFBehaviours == {"ok", "open_raises", "get_text_raises"}

\* pdfminer's extract_text raises or returns
PdfminerBehaviours == {"ok", "raises"}

\* _extract_with_pymupdf (lines 33-49); fitz.open raises on an empty stream
extract_with_pymupdf(file, behaviour) ==
    LET r == Read(file)
    IN  IF r.bytes = <<>> \/ behaviour = "open_raises"
        THEN [exc |-> "FileDataError", val |-> <<>>, bytes |-> r.bytes, file |-> r.file]
        ELSE IF behaviour = "get_text_raises"
        THEN [exc |-> "RuntimeError", val |-> <<>>, bytes |-> r.bytes, file |-> r.file]
        ELSE [exc |-> NoExc, val |-> Strip(PagesText(r.bytes)), bytes |-> r.bytes, file |-> r.file]

\* the read without the seek(0) before it
extract_with_pdfminer_no_seek(file, behaviour) ==
    LET r == Read(file)
    IN  IF r.bytes = <<>> \/ behaviour = "raises"
        THEN [exc |-> "PDFSyntaxError", val |-> <<>>, bytes |-> r.bytes, file |-> r.file]
        ELSE [exc |-> NoExc, val |-> Strip(PagesText(r.bytes)), bytes |-> r.bytes, file |-> r.file]

\* _extract_with_pdfminer (lines 51-61); pdfminer raises on an empty stream
extract_with_pdfminer(file, behaviour) ==
    LET r == Read(Seek(file, 0))
    IN  IF r.bytes = <<>> \/ behaviour = "raises"
        THEN [exc |-> "PDFSyntaxError", val |-> <<>>, bytes |-> r.bytes, file |-> r.file]
        ELSE [exc |-> NoExc, val |-> Strip(PagesText(r.bytes)), bytes |-> r.bytes, file |-> r.file]

\* a library that extract_text has not called
NotCalled == [called |-> FALSE, exc |-> NoExc, bytes |-> <<>>]

\* a library after its call
Called(attempt) == [called |-> TRUE, exc |-> attempt.exc, bytes |-> attempt.bytes]

\* raise Exception(f"Both extraction methods failed. PyMuPDF: {e}, pdfminer: {e2}")
BothFailed(e, e2) ==
    [exc |-> "Exception",
     val |-> <<"Both extraction methods failed. PyMuPDF: ", e, ", pdfminer: ", e2>>]

----------------------------------------------------------------------------
(* Inputs *)

\* how many times a sentence is repeated in an input text
MaxRepeat == 3

\* how many embedding models the constructor may produce
NumModels == 2

\* how many scoring calls run in one process
NumCalls == 2

\* get_score_feedback on its own is handed the scores from ScoreMargin below
\* 0 to ScoreMargin above 100
ScoreMargin == 10

Scores == (0 - ScoreMargin)..(100 + ScoreMargin)

Phrases == {
    <<"P", "y", "t", "h", "o", "n", " ", "a", "n", "d", " ", "R", "e", "a", "c", "t", ".">>,
    <<" ", "l", "e", "a", "d", "e", "r", "s", "h", "i", "p", " ", ".">>,
    <<"w", "e", " ", "d", "o", " ", "a", "g", "i", "l", "e", "\n", ".">> }

Tails == {
    <<>>,
    <<"f", "o", "r">>,
    <<"n", "i", "c", "e", " ", "t", "o", " ", "m", "e", "e", "t">> }

\* spec.md section 8, "Concrete scenario"
ScenarioResume ==
    <<
        "I", " ", "h", "a", "v", "e", " ", "e", "x", "p", "e", "r", "i", "e", "n", "c", "e", " ",
        "w", "i", "t", "h", " ", "p", "y", "t", "h", "o", "n", " ", "a", "n", "d", " ", "r", "e",
        "a", "c", "t", " ", "a", "n", "d", " ", "s", "t", "r", "o", "n", "g", " ", "l", "e", "a",
        "d", "e", "r", "s", "h", "i", "p", " ", "s", "k", "i", "l", "l", "s", "." >>

ScenarioJob ==
    <<
        "L", "o", "o", "k", "i", "n", "g", " ", "f", "o", "r", " ", "a", " ", "p", "y", "t", "h",
        "o", "n", " ", "d", "e", "v", "e", "l", "o", "p", "e", "r", " ", "w", "i", "t", "h", " ",
        "r", "e", "a", "c", "t", " ", "e", "x", "p", "e", "r", "i", "e", "n", "c", "e", " ", "a",
        "n", "d", " ", "l", "e", "a", "d", "e", "r", "s", "h", "i", "p", "." >>

\* a job posting of five sentences that names one technical skill and three
\* soft skills, and a resume line that names two of the soft skills
PostingJob ==
    <<
        "W", "e", " ", "n", "e", "e", "d", " ", "J", "a", "v", "a", " ", "s", "k", "i", "l", "l",
        "s", ".", " ", "C", "o", "m", "m", "u", "n", "i", "c", "a", "t", "i", "o", "n", " ", "i",
        "s", " ", "a", " ", "m", "u", "s", "t", ".", " ", "A", "g", "i", "l", "e", " ", "t", "e",
        "a", "m", "s", " ", "a", "r", "e", " ", "g", "r", "e", "a", "t", ".", " ", "A", "n", "a",
        "l", "y", "t", "i", "c", "a", "l", " ", "t", "h", "i", "n", "k", "i", "n", "g", " ", "w",
        "a", "n", "t", "e", "d", ".", " ", "S", "e", "n", "d", " ", "u", "s", " ", "y", "o", "u",
        "r", " ", "r", "e", "s", "u", "m", "e", "." >>

PostingResume ==
    <<
        "A", "g", "i", "l", "e", " ", "c", "o", "m", "m", "u", "n", "i", "c", "a", "t", "i", "o",
        "n" >>

RECURSIVE Repeat(_, _)
Repeat(s, k) == IF k = 0 THEN <<>> ELSE s \o Repeat(s, k - 1)

Texts ==
    { Repeat(p, k) \o t : p \in Phrases, k \in 0..MaxRepeat, t \in Tails }
        \cup {ScenarioResume, ScenarioJob, PostingResume, PostingJob}

InputValues == { Str(t) : t \in Texts } \cup {NoneVal}

Calls == 1..NumCalls

Models == { [seed |-> n] : n \in 0..(NumModels - 1) }

NoModel == [seed |-> -1]

NoOutcome ==
    [exc |-> NoExc, val |-> -1, path |-> "none", caught |-> NoExc,
     encoded |-> <<>>, locals |-> NoLocals, fallback_args |-> <<>>]

NoFeedback == <<>>

\* a call that has not started, and a call slot that is never used
FreshCall ==
    [pc |-> "start", load |-> Return(NoModel), behaviour |-> NotEncoded,
     out |-> NoOutcome, feedback |-> NoFeedback]

OffCall ==
    [pc |-> "off", load |-> Return(NoModel), behaviour |-> NotEncoded,
     out |-> NoOutcome, feedback |-> NoFeedback]

\* how many pieces an LLM result is put together from
MaxPieces == 3

\* how many pages an uploaded PDF has at most
MaxPages == 2

\* the pieces: the six headers, a line of text, a score, a bare newline
Pieces ==
    {Header[key] : key \in Keys} \cup
        { <<" ", "g", "o", "o", "d", " ", "f", "i", "t", " ", "\n">>,
          <<"7", "/", "1", "0">>,
          <<"\n">> }

\* a result with all six sections, in the order the prompt asks for
FullResult ==
    <<
        "S", "k", "i", "l", "l", "s", " ", "M", "a", "t", "c", "h", ":", " ", "P", "y", "t", "h",
        "o", "n", ",", " ", "S", "Q", "L", "\n", "M", "i", "s", "s", "i", "n", "g", " ", "S", "k",
        "i", "l", "l", "s", ":", " ", "D", "o", "c", "k", "e", "r", "\n", "I", "m", "p", "r", "o",
        "v", "e", "m", "e", "n", "t", " ", "T", "i", "p", "s", ":", " ", "A", "d", "d", " ", "m",
        "e", "t", "r", "i", "c", "s", ".", "\n", "O", "v", "e", "r", "a", "l", "l", " ", "S", "c",
        "o", "r", "e", ":", " ", "7", "\n", "S", "t", "r", "e", "n", "g", "t", "h", "s", ":", " ",
        "C", "l", "e", "a", "r", "\n", "W", "e", "a", "k", "n", "e", "s", "s", "e", "s", ":", " ",
        "S", "h", "o", "r", "t", "\n" >>

\* a result longer than PrefixLen characters that has no header
LongResult == Repeat(<<"n", "o", " ", "s", "t", "r", "u", "c", "t", "u", "r", "e", " ">>, 40)

RECURSIVE PieceSeqs(_)
PieceSeqs(n) ==
    IF n = 0 THEN {<<>>}
    ELSE PieceSeqs(n - 1) \cup {t \o p : t \in PieceSeqs(n - 1), p \in Pieces}

Results == PieceSeqs(MaxPieces) \cup {FullResult, LongResult}

ResultValues == { Str(t) : t \in Results } \cup {NoneVal}

NoAnalysis == [exc |-> NoExc, val |-> <<>>, caught |-> "unparsed"]

\* the text of a page: with a line, with trailing blanks, or blank
PageTexts ==
    { <<" ", "J", "a", "n", "e", " ", "D", "o", "e", "\n">>,
      <<"P", "y", "t", "h", "o", "n", " ", "d", "e", "v", "e", "l", "o", "p", "e", "r", " ", "\n">>,
      <<>> }

RECURSIVE PageSeqs(_)
PageSeqs(n) ==
    IF n = 0 THEN {<<>>}
    ELSE PageSeqs(n - 1) \cup {t \o <<p>> : t \in PageSeqs(n - 1), p \in PageTexts}

\* an uploaded file, at any read position: Streamlit hands the same file
\* object to every rerun of the script, wherever the last read left it
Files == { [content |-> pages, pos |-> n] : pages \in PageSeqs(MaxPages), n \in 0..MaxPages }

UploadedFiles == { f \in Files : f.pos <= Len(f.content) }

NoFile == [content |-> <<>>, pos |-> 0]

NoText == [exc |-> NoExc, val |-> <<>>]

\* extract_text before its first statement, and when it is never called
FreshExtraction ==
    [pc |-> "start", pymupdf |-> NotCalled, pdfminer |-> NotCalled, out |-> NoText]

OffExtraction ==
    [pc |-> "off", pymupdf |-> NotCalled, pdfminer |-> NotCalled, out |-> NoText]

----------------------------------------------------------------------------
(* Initial states *)

\* one scoring call on any pair of inputs
Init ==
    /\ resume_text \in InputValues
    /\ job_description \in InputValues
    /\ model_cache = NoModel
    /\ cache_lock = 0
    /\ constructor_runs = 0
    /\ calls = [c \in Calls |-> IF c = 1 THEN FreshCall ELSE OffCall]
    /\ score = 0
    /\ feedback = NoFeedback
    /\ result = NoneVal
    /\ analysis = NoAnalysis
    /\ pdf_file = NoFile
    /\ extraction = OffExtraction

\* NumCalls scoring calls running concurrently in one process, on the
\* scenario's texts
InitConc ==
    /\ resume_text = Str(ScenarioResume)
    /\ job_description = Str(ScenarioJob)
    /\ model_cache = NoModel
    /\ cache_lock = 0
    /\ constructor_runs = 0
    /\ calls = [c \in Calls |-> FreshCall]
    /\ score = 0
    /\ feedback = NoFeedback
    /\ result = NoneVal
    /\ analysis = NoAnalysis
    /\ pdf_file = NoFile
    /\ extraction = OffExtraction

\* get_score_feedback on its own, on any score
InitFeedback ==
    /\ resume_text = NoneVal
    /\ job_description = NoneVal
    /\ model_cache = NoModel
    /\ cache_lock = 0
    /\ constructor_runs = 0
    /\ calls = [c \in Calls |-> OffCall]
    /\ score \in Scores
    /\ feedback = NoFeedback
    /\ result = NoneVal
    /\ analysis = NoAnalysis
    /\ pdf_file = NoFile
    /\ extraction = OffExtraction

\* the scoring calls and get_score_feedback never run
ScoringOff ==
    /\ resume_text = NoneVal
    /\ job_description = NoneVal
    /\ model_cache = NoModel
    /\ cache_lock = 0
    /\ constructor_runs = 0
    /\ calls = [c \in Calls |-> OffCall]
    /\ score = 0
    /\ feedback = NoFeedback

\* _parse_analysis_result on its own, on any result
InitParse ==
    /\ ScoringOff
    /\ result \in ResultValues
    /\ analysis = NoAnalysis
    /\ pdf_file = NoFile
    /\ extraction = OffExtraction

\* extract_text on its own, on any uploaded file
InitExtract ==
    /\ ScoringOff
    /\ result = NoneVal
    /\ analysis = NoAnalysis
    /\ pdf_file \in UploadedFiles
    /\ extraction = FreshExtraction

----------------------------------------------------------------------------
(* load_sentence_transformer under @st.cache_resource (app.py:16-19, 25):  *)
(* the cached value is returned when present; on a miss the caller takes   *)
(* the cache's compute lock, looks again, and only then runs the function  *)
(* and stores its result.  A call that raises stores nothing.              *)

\* the lookup outside the lock
CacheLookup(c) ==
    /\ calls[c].pc = "start"
    /\ IF model_cache # NoModel
       THEN calls' = [calls EXCEPT ![c].pc = "compute", ![c].load = Return(model_cache)]
       ELSE calls' = [calls EXCEPT ![c].pc = "acquire"]
    /\ UNCHANGED <<resume_text, job_description, model_cache, cache_lock,
                   constructor_runs, score, feedback>>
    /\ UNCHANGED document_vars

\* taking the lock without looking again
AcquireLockNoRecheck(c) ==
    /\ calls[c].pc = "acquire"
    /\ cache_lock = 0
    /\ calls' = [calls EXCEPT ![c].pc = "construct"]
    /\ cache_lock' = c
    /\ UNCHANGED <<resume_text, job_description, model_cache, constructor_runs,
                   score, feedback>>
    /\ UNCHANGED document_vars

\* taking the lock and looking again
AcquireLock(c) ==
    /\ calls[c].pc = "acquire"
    /\ cache_lock = 0
    /\ IF model_cache # NoModel
       THEN /\ calls' = [calls EXCEPT ![c].pc = "compute", ![c].load = Return(model_cache)]
            /\ UNCHANGED cache_lock
       ELSE /\ calls' = [calls EXCEPT ![c].pc = "construct"]
            /\ cache_lock' = c
    /\ UNCHANGED <<resume_text, job_description, model_cache, constructor_runs,
                   score, feedback>>
    /\ UNCHANGED document_vars

\* SentenceTransformer('sentence-transformers/all-mpnet-base-v2') returns a model
ConstructModel(c) ==
    /\ calls[c].pc = "construct"
    /\ \E m \in Models :
          /\ model_cache' = m
          /\ calls' = [calls EXCEPT ![c].pc = "compute", ![c].load = Return(m)]
    /\ constructor_runs' = constructor_runs + 1
    /\ cache_lock' = 0
    /\ UNCHANGED <<resume_text, job_description, score, feedback>>
    /\ UNCHANGED document_vars

\* the constructor raises (model files missing, no network)
ConstructFails(c) ==
    /\ calls[c].pc = "construct"
    /\ calls' = [calls EXCEPT ![c].pc = "compute", ![c].load = Raise("OSError")]
    /\ constructor_runs' = constructor_runs + 1
    /\ cache_lock' = 0
    /\ UNCHANGED <<resume_text, job_description, model_cache, score, feedback>>
    /\ UNCHANGED document_vars

----------------------------------------------------------------------------
(* The rest of calculate_semantic_similarity, and the feedback on its score *)

\* whether the call gets as far as model.encode (line 38)
ReachesEncode(c) ==
    calls[c].load.exc = NoExc /\ IsStr(resume_text) /\ IsStr(job_description)

\* The rest of the scoring call and the feedback for its score (app.py:27-57,
\* 450, 462), for each thing the encode call may do.  get_score_feedback is
\* reached only when calculate_semantic_similarity returned.
Compute(c) ==
    /\ calls[c].pc = "compute"
    /\ \E behaviour \in (IF ReachesEncode(c) THEN EncodeBehaviours ELSE {NotEncoded}) :
          \E out \in {calculate_semantic_similarity(
                          calls[c].load, resume_text, job_description, behaviour)} :
              calls' = [calls EXCEPT
                           ![c].pc = "done",
                           ![c].behaviour = behaviour,
                           ![c].out = out,
                           ![c].feedback = IF out.exc = NoExc
                                           THEN get_score_feedback(out.val)
                                           ELSE NoFeedback]
    /\ UNCHANGED <<resume_text, job_description, model_cache, cache_lock,
                   constructor_runs, score, feedback>>
    /\ UNCHANGED document_vars

\* get_score_feedback(score) on its own
GetScoreFeedback ==
    /\ \A c \in Calls : calls[c].pc = "off"
    /\ feedback = NoFeedback
    /\ feedback' = get_score_feedback(score)
    /\ UNCHANGED <<resume_text, job_description, model_cache, cache_lock,
                   constructor_runs, calls, score>>
    /\ UNCHANGED document_vars

Next ==
    \E c \in Calls :
        \/ CacheLookup(c)
        \/ AcquireLock(c)
        \/ ConstructModel(c)
        \/ ConstructFails(c)
        \/ Compute(c)

\* the scoring calls when the model cannot be loaded (the embedding backend
\* disabled): every call is scored by the fallback scorer
NextFallback ==
    \E c \in Calls :
        \/ CacheLookup(c)
        \/ AcquireLock(c)
        \/ ConstructFails(c)
        \/ Compute(c)

NextFeedback == GetScoreFeedback

\* _parse_analysis_result(result)
ParseAnalysisResult ==
    /\ analysis = NoAnalysis
    /\ analysis' = parse_analysis_result(result)
    /\ UNCHANGED <<result, pdf_file, extraction>>
    /\ UNCHANGED scoring_vars

NextParse == ParseAnalysisResult

\* extract_text, first attempt (lines 22-26): PyMuPDF returns the text, or
\* raises and the except clause is entered
ExtractWithPyMuPDF ==
    /\ extraction.pc = "start"
    /\ \E behaviour \in PyMuPDFBehaviours :
          \E attempt \in {extract_with_pymupdf(pdf_file, behaviour)} :
              /\ pdf_file' = attempt.file
              /\ extraction' =
                    [extraction EXCEPT
                        !.pc = IF attempt.exc = NoExc THEN "done" ELSE "except",
                        !.pymupdf = Called(attempt),
                        !.out = IF attempt.exc = NoExc THEN Return(attempt.val) ELSE NoText]
    /\ UNCHANGED <<result, analysis>>
    /\ UNCHANGED scoring_vars

\* extract_text, the except clause (lines 27-31): pdfminer returns the text,
\* or raises and extract_text raises an error naming both exceptions
ExtractWithPdfminer ==
    /\ extraction.pc = "except"
    /\ \E behaviour \in PdfminerBehaviours :
          \E attempt \in {extract_with_pdfminer(pdf_file, behaviour)} :
              /\ pdf_file' = attempt.file
              /\ extraction' =
                    [extraction EXCEPT
                        !.pc = "done",
                        !.pdfminer = Called(attempt),
                        !.out = IF attempt.exc = NoExc THEN Return(attempt.val)
                                ELSE BothFailed(extraction.pymupdf.exc, attempt.exc)]
    /\ UNCHANGED <<result, analysis>>
    /\ UNCHANGED scoring_vars

NextExtract == ExtractWithPyMuPDF \/ ExtractWithPdfminer

Spec == Init /\ [][Next]_vars

SpecConc == InitConc /\ [][Next]_vars

SpecFallback == Init /\ [][NextFallback]_vars

SpecFeedback == InitFeedback /\ [][NextFeedback]_vars

SpecParse == InitParse /\ [][NextParse]_vars

SpecExtract == InitExtract /\ [][NextExtract]_vars

----------------------------------------------------------------------------
(* Properties *)

\* the call has returned
Done(c) == calls[c].pc = "done"

StringInputs == IsStr(resume_text) /\ IsStr(job_description)

\* the dictionary terms that occur in the lowercased text
TermsOf(skills, text) ==
    LET lowered == Lower(text)
    IN  {skills[i] : i \in {k \in 1..Len(skills) : Contains(lowered, skills[k])}}

\* the number of spans between periods that are longer than 10 characters
\* once stripped
LongSpans(text) ==
    LET spans == Split(text, ".")
    IN  Cardinality({k \in 1..Len(spans) : Len(Strip(spans[k])) >= MinSentenceLen + 1})

\* C1: on string inputs, whatever the embedding backend does, a scoring call
\* returns without raising, and its result is an integer in [10, 95] on the
\* semantic path and in [15, 90] on the fallback path.
C1_ScoreTotalAndBounded ==
    \A c \in Calls :
        (Done(c) /\ StringInputs) =>
            /\ calls[c].out.exc = NoExc
            /\ calls[c].out.path \in {"semantic", "fallback"}
            /\ calls[c].out.path = "semantic" => calls[c].out.val \in 10..95
            /\ calls[c].out.path = "fallback" => calls[c].out.val \in 15..90

\* an empty resume scored on the fallback path after the encode call raised
C1_Witness ==
    \E c \in Calls :
        /\ Done(c)
        /\ resume_text = Str(<<>>)
        /\ IsStr(job_description)
        /\ calls[c].behaviour = "raise"
        /\ calls[c].out.path = "fallback"
        /\ calls[c].out.val \in 15..90

\* C2: the fallback scorer is called exactly when the try block raised; it is
\* then given the original inputs and its value is what the call returns;
\* when nothing raised it is not called and the call is on the semantic path.
C2_FallbackIffException ==
    \A c \in Calls :
        Done(c) =>
            /\ (calls[c].out.fallback_args # <<>>) <=> (calls[c].out.caught # NoExc)
            /\ (calls[c].load.exc # NoExc \/ ~StringInputs
                    \/ calls[c].behaviour \in {"raise", "nan"})
                  <=> (calls[c].out.caught # NoExc)
            /\ calls[c].out.caught # NoExc =>
                  /\ calls[c].out.path = "fallback"
                  /\ calls[c].out.fallback_args = <<resume_text, job_description>>
                  /\ calls[c].out.val =
                        calculate_keyword_fallback_score(resume_text, job_description).val
            /\ calls[c].out.caught = NoExc => calls[c].out.path = "semantic"

\* the model loaded but cosine_similarity raised on NaN embeddings, and the
\* fallback scorer was given the two different original texts
C2_Witness ==
    \E c \in Calls :
        /\ Done(c)
        /\ calls[c].load.exc = NoExc
        /\ calls[c].out.caught = "ValueError"
        /\ resume_text # job_description
        /\ calls[c].out.fallback_args = <<resume_text, job_description>>
        /\ calls[c].out.val # FallbackDefault

\* C3: the fallback scorer never raises; on an input that is not a string it
\* returns 50; every value it returns lies in [15, 90].
C3_FallbackNeverRaises ==
    \A c \in Calls :
        (Done(c) /\ calls[c].out.fallback_args # <<>>) =>
            /\ calls[c].out.exc = NoExc
            /\ ~StringInputs => calls[c].out.val = FallbackDefault
            /\ calls[c].out.val \in 15..90

\* the fallback scorer was handed None for the resume and returned 50
C3_Witness ==
    \E c \in Calls :
        /\ Done(c)
        /\ resume_text = NoneVal
        /\ calls[c].out.fallback_args = <<NoneVal, job_description>>
        /\ calls[c].out.val = FallbackDefault

\* C4: a text with fewer than 3 long spans is embedded as one unit, the text
\* itself, unstripped and with its periods; the empty text as the one unit "".
\* This holds for the resume and for the job description separately.
C4_SegmentationCollapse ==
    \A c \in Calls :
        (Done(c) /\ calls[c].out.encoded # <<>>) =>
            /\ LongSpans(resume_text.chars) < 3 =>
                  calls[c].out.encoded[1] = <<resume_text.chars>>
            /\ LongSpans(job_description.chars) < 3 =>
                  calls[c].out.encoded[2] = <<job_description.chars>>
            /\ resume_text.chars = <<>> => calls[c].out.encoded[1] = << <<>> >>
            /\ job_description.chars = <<>> => calls[c].out.encoded[2] = << <<>> >>

\* a resume with exactly 2 long spans, leading whitespace or not, kept whole
\* with its periods, next to a job description that was not collapsed
C4_Witness ==
    \E c \in Calls :
        /\ Done(c)
        /\ calls[c].out.encoded # <<>>
        /\ LongSpans(resume_text.chars) = 2
        /\ \E i \in 1..Len(resume_text.chars) : resume_text.chars[i] = "."
        /\ calls[c].out.encoded[1] = <<resume_text.chars>>
        /\ Len(calls[c].out.encoded[2]) >= 3

\* C5: when the job description contains no technical and no soft term, the
\* fallback scorer returns 63 whatever the resume is.
C5_FallbackDefault ==
    \A c \in Calls :
        (/\ Done(c)
         /\ StringInputs
         /\ calls[c].out.path = "fallback"
         /\ TermsOf(technical_skills, job_description.chars) = {}
         /\ TermsOf(soft_skills, job_description.chars) = {}) =>
            calls[c].out.val = 63

\* a non-empty job description without any dictionary term, and a resume that
\* has dictionary terms, scored 63
C5_Witness ==
    \E c \in Calls :
        /\ Done(c)
        /\ StringInputs
        /\ calls[c].out.path = "fallback"
        /\ job_description.chars # <<>>
        /\ TermsOf(technical_skills, job_description.chars) = {}
        /\ TermsOf(soft_skills, job_description.chars) = {}
        /\ TermsOf(technical_skills, resume_text.chars) # {}
        /\ calls[c].out.val = 63

\* C6: when the job description has a technical term and a soft term and the
\* resume contains every dictionary term of the job description, then
\* technical_score, soft_score and weighted_score are 100 and the result is 90.
C6_FallbackFullMatch ==
    \A c \in Calls :
        (/\ Done(c)
         /\ StringInputs
         /\ calls[c].out.path = "fallback"
         /\ TermsOf(technical_skills, job_description.chars) # {}
         /\ TermsOf(soft_skills, job_description.chars) # {}
         /\ TermsOf(technical_skills, job_description.chars)
               \subseteq TermsOf(technical_skills, resume_text.chars)
         /\ TermsOf(soft_skills, job_description.chars)
               \subseteq TermsOf(soft_skills, resume_text.chars)) =>
            LET locals == FallbackLocals(resume_text.chars, job_description.chars)
            IN  /\ FloatIsNat(locals.technical_score, 100)
                /\ FloatIsNat(locals.soft_score, 100)
                /\ FloatIsNat(locals.weighted_score, 100)
                /\ calls[c].out.val = 90

\* the python / react / leadership scenario scored 90 on the fallback path
C6_Witness ==
    \E c \in Calls :
        /\ Done(c)
        /\ resume_text = Str(ScenarioResume)
        /\ job_description = Str(ScenarioJob)
        /\ calls[c].out.path = "fallback"
        /\ calls[c].out.val = 90

\* C7 as stated: on the fallback path a resume equal to the job description
\* scores the fallback maximum 90, for every job description.
C7_VerbatimAlwaysMax ==
    \A c \in Calls :
        (/\ Done(c)
         /\ StringInputs
         /\ calls[c].out.path = "fallback"
         /\ resume_text = job_description) =>
            calls[c].out.val = 90

\* C7 amended: on the fallback path a resume equal to the job description
\* scores 90 when the job description contains a technical term; without one
\* it scores 72 when it contains a soft term and 63 when it contains neither.
C7_VerbatimMaxWithTechnicalTerm ==
    \A c \in Calls :
        (/\ Done(c)
         /\ StringInputs
         /\ calls[c].out.path = "fallback"
         /\ resume_text = job_description) =>
            LET technical == TermsOf(technical_skills, job_description.chars)
                soft      == TermsOf(soft_skills, job_description.chars)
            IN  /\ technical # {} => calls[c].out.val = 90
                /\ (technical = {} /\ soft # {}) => calls[c].out.val = 72
                /\ (technical = {} /\ soft = {}) => calls[c].out.val = 63

\* a job description with technical terms and no soft term, scored against
\* itself: 90
C7_Witness ==
    \E c \in Calls :
        /\ Done(c)
        /\ StringInputs
        /\ calls[c].out.path = "fallback"
        /\ resume_text = job_description
        /\ TermsOf(technical_skills, job_description.chars) # {}
        /\ TermsOf(soft_skills, job_description.chars) = {}
        /\ calls[c].out.val = 90

\* C8: on the semantic path, with every unit at similarity 1 to itself, a
\* resume equal to the job description scores at least 80 (in fact 95).
C8_SemanticVerbatim ==
    \A c \in Calls :
        (/\ Done(c)
         /\ calls[c].out.path = "semantic"
         /\ calls[c].behaviour = "ok"
         /\ resume_text = job_description) =>
            /\ calls[c].out.val >= 80
            /\ calls[c].out.val = SemanticCeiling

\* a text of at least 3 units, two of them embedded at different angles,
\* scored against itself on the semantic path
C8_Witness ==
    \E c \in Calls :
        /\ Done(c)
        /\ calls[c].out.path = "semantic"
        /\ calls[c].behaviour = "ok"
        /\ resume_text = job_description
        /\ Len(calls[c].out.encoded[1]) >= 3
        /\ LET embeddings == Encode(calls[c].load.val, calls[c].out.encoded[1], "ok")
           IN  \E i, j \in 1..Len(embeddings) : embeddings[i].angle # embeddings[j].angle
        /\ calls[c].out.val = 95

\* the tier a feedback tuple belongs to, by its message, and the tiers in order
TierOf(fb) ==
    IF fb[1] = "Excellent match! Your resume aligns very well with this job."
    THEN "Excellent"
    ELSE IF fb[1] = "Good match! Consider highlighting relevant skills more prominently."
    THEN "Good"
    ELSE IF fb[1] = "Moderate match. You may want to tailor your resume for this role."
    THEN "Moderate"
    ELSE IF fb[1] = "Low match. Consider significant resume adjustments for this position."
    THEN "Low"
    ELSE "Very low"

TierRank(tier) ==
    CASE tier = "Excellent" -> 5
      [] tier = "Good" -> 4
      [] tier = "Moderate" -> 3
      [] tier = "Low" -> 2
      [] tier = "Very low" -> 1

\* C9: get_score_feedback maps every integer score to one tier, with
\* inclusive lower bounds 80, 65, 45 and 25, the severities success, info,
\* warning, error, error, and no lower score in a higher tier.
C9_FeedbackBands ==
    feedback # NoFeedback =>
        /\ score >= 80 => (TierOf(feedback) = "Excellent" /\ feedback[2] = "success")
        /\ score \in 65..79 => (TierOf(feedback) = "Good" /\ feedback[2] = "info")
        /\ score \in 45..64 => (TierOf(feedback) = "Moderate" /\ feedback[2] = "warning")
        /\ score \in 25..44 => (TierOf(feedback) = "Low" /\ feedback[2] = "error")
        /\ score < 25 => (TierOf(feedback) = "Very low" /\ feedback[2] = "error")
        /\ \A lower \in {n \in Scores : n <= score} :
              TierRank(TierOf(get_score_feedback(lower))) <= TierRank(TierOf(feedback))

\* the score 80, on the boundary, mapped to the Excellent tier
C9_Witness ==
    /\ score = 80
    /\ feedback # NoFeedback
    /\ TierOf(feedback) = "Excellent"
    /\ feedback[2] = "success"

\* the model a call got from load_sentence_transformer, NoModel if none
ModelOf(c) == IF calls[c].load.exc = NoExc THEN calls[c].load.val ELSE NoModel

\* C10 as stated: the constructor runs at most once, and every call that
\* has a model has the cached one.
C10_ConstructorRunsOnce ==
    /\ constructor_runs <= 1
    /\ \A c \in Calls : ModelOf(c) \in {NoModel, model_cache}

\* C10 amended: the model is loaded at most once: once a model is cached it
\* is never replaced and the constructor never runs again, and every call
\* that has a model has the cached one; a construction that raised caches
\* nothing, and the constructor then runs again for a later call.
C10_ModelLoadedOnce ==
    [][/\ model_cache # NoModel =>
             (model_cache' = model_cache /\ constructor_runs' = constructor_runs)
       /\ model_cache' # model_cache => constructor_runs' = constructor_runs + 1
       /\ \A c \in Calls : ModelOf(c)' \in {NoModel, model_cache'}]_vars

\* every call has returned, the constructor ran once, and all calls were
\* handed the one cached model and scored on the semantic path
C10_Witness ==
    /\ model_cache # NoModel
    /\ constructor_runs = 1
    /\ \A c \in Calls : Done(c) /\ ModelOf(c) = model_cache
    /\ \A c \in Calls : calls[c].out.path = "semantic"

\* a call that returned on the semantic path
Semantic(c) == Done(c) /\ calls[c].out.path = "semantic"

\* the mean of the row maxima times 100, as the fraction ScaledNum / ScaledDen
ScaledNum(c) == SeqSum(calls[c].out.locals.max_similarities) * 100

ScaledDen(c) == Len(calls[c].out.locals.max_similarities) * 1000

\* C11 as stated: on the semantic path the pre-clamp percentage is the
\* overall similarity times 100 rounded to the nearest integer, and the
\* result is that percentage clamped to [10, 95].
C11_RoundedPercentage ==
    \A c \in Calls :
        Semantic(c) =>
            LET p == calls[c].out.locals.percentage_score
            IN  /\ 2 * Abs(p * ScaledDen(c) - ScaledNum(c)) <= ScaledDen(c)
                /\ calls[c].out.val = Max(10, Min(95, p))

\* C11 amended: on the semantic path the pre-clamp percentage is the overall
\* similarity times 100 truncated toward zero (0.796 scales to 79, -0.371 to
\* -37), and the result is that percentage clamped to [10, 95].
C11_TruncatedPercentage ==
    \A c \in Calls :
        Semantic(c) =>
            LET p == calls[c].out.locals.percentage_score
            IN  /\ ScaledNum(c) >= 0 =>
                      (p * ScaledDen(c) <= ScaledNum(c) /\ ScaledNum(c) < (p + 1) * ScaledDen(c))
                /\ ScaledNum(c) < 0 =>
                      ((p - 1) * ScaledDen(c) < ScaledNum(c) /\ ScaledNum(c) <= p * ScaledDen(c))
                /\ calls[c].out.val = Max(10, Min(95, p))

\* one resume unit whose best similarity is 0.796: the percentage is 79 and
\* so is the score
C11_Witness ==
    \E c \in Calls :
        /\ Semantic(c)
        /\ calls[c].out.locals.max_similarities = <<796>>
        /\ calls[c].out.locals.percentage_score = 79
        /\ calls[c].out.val = 79

\* the similarity matrix of a call that got as far as line 42: one row per
\* resume unit, one column per job-description unit
MatrixOf(c) ==
    cosine_similarity(Encode(calls[c].load.val, calls[c].out.encoded[1], calls[c].behaviour),
                      Encode(calls[c].load.val, calls[c].out.encoded[2], calls[c].behaviour)).val

\* the largest entry of row i
RowBest(M, i) == CHOOSE v \in {M[i][j] : j \in 1..Len(M[i])} : \A j \in 1..Len(M[i]) : v >= M[i][j]

\* column j is the maximum of no row
NoRowsMaximum(M, j) == \A i \in 1..Len(M) : M[i][j] < RowBest(M, i)

\* the matrix without column j
WithoutColumn(M, j) ==
    [i \in 1..Len(M) |-> [k \in 1..(Len(M[i]) - 1) |-> IF k < j THEN M[i][k] ELSE M[i][k + 1]]]

\* C12: on the semantic path there is one row maximum per resume unit, row
\* i's being the largest similarity of resume unit i to any job-description
\* unit; the score is the mean of the row maxima, scaled and clamped; and
\* the score computed without a column that is no row's maximum is the same.
C12_RowMaxAggregation ==
    \A c \in Calls :
        Semantic(c) =>
            LET M     == MatrixOf(c)
                maxes == calls[c].out.locals.max_similarities
                n     == Len(calls[c].out.encoded[1])
                total == SeqSum([i \in 1..n |-> RowBest(M, i)])
            IN  /\ Len(M) = n
                /\ \A i \in 1..n : Len(M[i]) = Len(calls[c].out.encoded[2])
                /\ Len(maxes) = n
                /\ \A i \in 1..n : maxes[i] = RowBest(M, i)
                /\ calls[c].out.val = Max(10, Min(95, TruncDiv(total * 100, n * 1000)))
                /\ \A j \in 1..Len(M[1]) :
                      NoRowsMaximum(M, j) =>
                          calls[c].out.val =
                              SemanticClamp(PercentageScore(RowMax(WithoutColumn(M, j))))

\* more job-description units than resume units, one of them no row's
\* maximum, and rows with different maxima
C12_Witness ==
    \E c \in Calls :
        /\ Semantic(c)
        /\ calls[c].behaviour = "ok"
        /\ Len(calls[c].out.encoded[1]) >= 3
        /\ Len(calls[c].out.encoded[2]) > Len(calls[c].out.encoded[1])
        /\ \E j \in 1..Len(calls[c].out.encoded[2]) : NoRowsMaximum(MatrixOf(c), j)
        /\ \E i, k \in 1..Len(calls[c].out.encoded[1]) :
              calls[c].out.locals.max_similarities[i] # calls[c].out.locals.max_similarities[k]

\* a call on string inputs that returned on the fallback path
Fallback(c) == Done(c) /\ StringInputs /\ calls[c].out.path = "fallback"

\* C13's formula in exact arithmetic.  A category score is the fraction
\* CategoryNum / CategoryDen: 100 * |matched| / |wanted|, or the default when
\* no term is wanted; weighted is 0.7 * technical + 0.3 * soft.
CategoryNum(matched, wanted, default) ==
    IF wanted # {} THEN 100 * Cardinality(matched) ELSE default

CategoryDen(wanted) == IF wanted # {} THEN Cardinality(wanted) ELSE 1

ExactFallbackScore(resume, jd) ==
    LET jd_technical     == TermsOf(technical_skills, jd)
        jd_soft          == TermsOf(soft_skills, jd)
        resume_technical == jd_technical \cap TermsOf(technical_skills, resume)
        resume_soft      == jd_soft \cap TermsOf(soft_skills, resume)
        tn == CategoryNum(resume_technical, jd_technical, 60)
        td == CategoryDen(jd_technical)
        sn == CategoryNum(resume_soft, jd_soft, 70)
        sd == CategoryDen(jd_soft)
    IN  Max(15, Min(90, (7 * tn * sd + 3 * sn * td) \div (10 * td * sd)))

\* C13: on the fallback path the result is 0.7 * technical_score + 0.3 *
\* soft_score, with each score 100 * |matched| / |wanted| or its default 60
\* or 70, truncated toward zero and clamped to [15, 90].
C13_FallbackFormula ==
    \A c \in Calls :
        Fallback(c) =>
            calls[c].out.val = ExactFallbackScore(resume_text.chars, job_description.chars)

\* the term occurs in the text as a contiguous run of characters
Occurs(term, text) ==
    \E i \in 1..(Len(text) - Len(term) + 1) :
        \A k \in 1..Len(term) : text[i + k - 1] = term[k]

InSeq(x, xs) == \E k \in 1..Len(xs) : xs[k] = x

\* the terms of a dictionary are matched by occurrence in the lowercased texts
MatchedByOccurrence(skills, jd_list, resume_list, jd_lower, resume_lower) ==
    \A k \in 1..Len(skills) :
        /\ InSeq(skills[k], jd_list) <=> Occurs(skills[k], jd_lower)
        /\ InSeq(skills[k], resume_list) <=>
              (Occurs(skills[k], jd_lower) /\ Occurs(skills[k], resume_lower))

\* C14: in the fallback scorer a dictionary term counts as present in a text
\* exactly when it occurs as a contiguous substring of the lowercased text,
\* whatever surrounds it: a job description containing "for" has the term
\* "r".
C14_SubstringMatching ==
    \A c \in Calls :
        Fallback(c) =>
            \A locals \in {FallbackLocals(resume_text.chars, job_description.chars)} :
            \A jd_lower \in {Lower(job_description.chars)} :
            \A resume_lower \in {Lower(resume_text.chars)} :
                /\ MatchedByOccurrence(technical_skills, locals.jd_technical,
                                       locals.resume_technical, jd_lower, resume_lower)
                /\ MatchedByOccurrence(soft_skills, locals.jd_soft,
                                       locals.resume_soft, jd_lower, resume_lower)
                /\ Occurs(<<"f", "o", "r">>, jd_lower) => InSeq(<<"r">>, locals.jd_technical)

\* a job description in which "r" is never a word of its own but occurs
\* inside "for", and in which "Python" is capitalised: both terms are counted
C14_Witness ==
    \E c \in Calls :
        /\ Fallback(c)
        /\ Occurs(<<"f", "o", "r">>, job_description.chars)
        /\ ~ContainsWord(Lower(job_description.chars), <<"r">>)
        /\ Occurs(<<"P", "y", "t", "h", "o", "n">>, job_description.chars)
        /\ ~Occurs(<<"p", "y", "t", "h", "o", "n">>, job_description.chars)
        /\ LET locals == FallbackLocals(resume_text.chars, job_description.chars)
           IN  /\ InSeq(<<"r">>, locals.jd_technical)
               /\ InSeq(<<"p", "y", "t", "h", "o", "n">>, locals.jd_technical)

\* a call that got as far as handing units to model.encode
Segmented(c) == Done(c) /\ calls[c].out.encoded # <<>>

\* the indices of the spans that are longer than 10 characters once stripped
LongIndices(spans) == {k \in 1..Len(spans) : Len(Strip(spans[k])) > 10}

\* the units are the long spans of the text, stripped, in their order; none
\* has a period, whitespace at either end, or 10 characters or fewer
UnitsAreLongSpans(text, units) ==
    \A spans \in {Split(text, ".")} :
    \A long \in {LongIndices(spans)} :
        /\ Len(units) = Cardinality(long)
        /\ \A k \in long :
              units[Cardinality({j \in long : j < k}) + 1] = Strip(spans[k])
        /\ \A i \in 1..Len(units) :
              /\ Len(units[i]) > 10
              /\ \A n \in 1..Len(units[i]) : units[i][n] # "."
              /\ units[i][1] \notin Whitespace
              /\ units[i][Len(units[i])] \notin Whitespace

\* C15: a text with at least 3 spans longer than 10 characters once stripped
\* is embedded as exactly those spans, stripped, in their original order;
\* shorter spans are left out.  This holds for the resume and for the job
\* description separately.
C15_SegmentationLongSpans ==
    \A c \in Calls :
        Segmented(c) =>
            /\ LongSpans(resume_text.chars) >= 3 =>
                  UnitsAreLongSpans(resume_text.chars, calls[c].out.encoded[1])
            /\ LongSpans(job_description.chars) >= 3 =>
                  UnitsAreLongSpans(job_description.chars, calls[c].out.encoded[2])

\* a resume of 3 long spans that end in whitespace, followed by a short span
\* that is left out: 3 units
C15_Witness ==
    \E c \in Calls :
        /\ Segmented(c)
        /\ LET spans == Split(resume_text.chars, ".")
           IN  /\ Cardinality(LongIndices(spans)) = 3
               /\ \E k \in LongIndices(spans) : Strip(spans[k]) # spans[k]
               /\ \E k \in 1..Len(spans) : Len(Strip(spans[k])) \in 1..10
        /\ Len(calls[c].out.encoded[1]) = 3

\* a float x >= 0 is at most the natural n
FloatAtMost(x, n) == FloatTrunc(x) < n \/ FloatIsNat(x, n)

\* every element of xs is an element of ys
SeqSubset(xs, ys) == \A k \in 1..Len(xs) : InSeq(xs[k], ys)

\* dictionary terms appended to a resume, after a space
AddedTerms == {<<"j", "a", "v", "a">>, <<"s", "q", "l">>, <<"a", "g", "i", "l", "e">>,
               <<"r", "e", "a", "c", "t">>}

\* no element of xs occurs inside the term
CarriesNone(term, xs) == \A k \in 1..Len(xs) : ~Occurs(xs[k], term)

\* C17 as stated: in the fallback scorer the matched lists are within the
\* job description's lists and both category scores lie in [0, 100];
\* appending to the resume a dictionary term that is absent from the job
\* description never changes the score, and appending one that is present
\* never lowers it.
C17_AbsentTermNeverChanges ==
    \A c \in Calls :
        Fallback(c) =>
            \A locals \in {FallbackLocals(resume_text.chars, job_description.chars)} :
                /\ SeqSubset(locals.resume_technical, locals.jd_technical)
                /\ SeqSubset(locals.resume_soft, locals.jd_soft)
                /\ FloatAtMost(locals.technical_score, 100)
                /\ FloatAtMost(locals.soft_score, 100)
                /\ \A term \in AddedTerms :
                      \A more \in {FallbackLocals(resume_text.chars \o <<" ">> \o term,
                                                  job_description.chars)} :
                          IF InSeq(term, locals.jd_technical) \/ InSeq(term, locals.jd_soft)
                          THEN more.score >= calls[c].out.val
                          ELSE more.score = calls[c].out.val

\* C17 amended: in the fallback scorer the matched lists are within the job
\* description's lists, so both category scores lie in [0, 100]; and the
\* score depends on the resume only through the job description's terms it
\* contains: appending a dictionary term to the resume never loses a match
\* and never lowers the score, and leaves the score as it is when the resume
\* gains no term of the job description, as when the appended term is absent
\* from the job description and so is every term written inside it ("react"
\* has "r" inside).
C17_MatchedWithinJobTerms ==
    \A c \in Calls :
        Fallback(c) =>
            \A locals \in {FallbackLocals(resume_text.chars, job_description.chars)} :
                /\ SeqSubset(locals.resume_technical, locals.jd_technical)
                /\ SeqSubset(locals.resume_soft, locals.jd_soft)
                /\ SeqSubset(locals.jd_technical, technical_skills)
                /\ SeqSubset(locals.jd_soft, soft_skills)
                /\ FloatAtMost(locals.technical_score, 100)
                /\ FloatAtMost(locals.soft_score, 100)
                /\ \A term \in AddedTerms :
                      \A more \in {FallbackLocals(resume_text.chars \o <<" ">> \o term,
                                                  job_description.chars)} :
                          /\ SeqSubset(locals.resume_technical, more.resume_technical)
                          /\ SeqSubset(locals.resume_soft, more.resume_soft)
                          /\ more.score >= calls[c].out.val
                          /\ (/\ more.resume_technical = locals.resume_technical
                              /\ more.resume_soft = locals.resume_soft) =>
                                more.score = calls[c].out.val
                          /\ (/\ CarriesNone(term, locals.jd_technical)
                              /\ CarriesNone(term, locals.jd_soft)) =>
                                more.score = calls[c].out.val

\* the posting scored against a resume with two of its three soft skills and
\* neither of its technical ones: appending "sql", which the posting lacks,
\* leaves the score, and appending "java", which it has, raises it
C17_Witness ==
    \E c \in Calls :
        /\ Fallback(c)
        /\ job_description = Str(PostingJob)
        /\ LET locals == FallbackLocals(resume_text.chars, job_description.chars)
               sql    == FallbackLocals(resume_text.chars \o <<" ">> \o <<"s", "q", "l">>,
                                        job_description.chars)
               java   == FallbackLocals(resume_text.chars \o <<" ">> \o <<"j", "a", "v", "a">>,
                                        job_description.chars)
           IN  /\ Len(locals.resume_soft) = 2
               /\ Len(locals.jd_soft) = 3
               /\ locals.resume_technical = <<>>
               /\ sql.score = calls[c].out.val
               /\ java.score > calls[c].out.val

\* _parse_analysis_result has returned or raised
Parsed == analysis # NoAnalysis

\* the offsets at which the header occurs in the text
OffsetsOf(header, text) ==
    {i \in 0..(Len(text) - Len(header)) : \A k \in 1..Len(header) : text[i + k] = header[k]}

\* the offset right after the first occurrence of the header, -1 without one
AfterHeader(header, text) ==
    LET offsets == OffsetsOf(header, text)
    IN  IF offsets = {} THEN -1
        ELSE (CHOOSE i \in offsets : \A j \in offsets : i <= j) + Len(header)

\* the value is the stripped text from offset a up to the first later
\* occurrence of the next header, or up to the end of the text
IsSectionText(value, text, a, stop) ==
    LET stops == IF stop = <<>> THEN {} ELSE {i \in OffsetsOf(stop, text) : i > a}
    IN  \E e \in (a + 1)..Len(text) :
            /\ e = Len(text) \/ e \in stops
            /\ \A i \in stops : i >= e
            /\ value = Strip(SubSeq(text, a + 1, e))

\* the defaults the claim names, and the code's for the other keys
NamedDefault(key, text) ==
    CASE key \in {"skills_match", "strengths"} -> <<"A", "n", "a", "l", "y", "s", "i", "s", " ", "c", "o", "m", "p", "l", "e", "t", "e", "d">>
      [] key = "overall_score" -> <<"N", "/", "A">>
      [] OTHER -> Default(text)[key]

\* C16: _parse_analysis_result never raises and returns a mapping with
\* exactly the six keys; on a string result its except clause is not
\* entered, a key whose header is absent, or has nothing after it, has its
\* default, and any other key has the stripped text that follows its header.
C16_ParserTotal ==
    Parsed =>
        /\ analysis.exc = NoExc
        /\ DOMAIN analysis.val = {"skills_match", "missing_skills", "improvement_tips",
                                  "overall_score", "strengths", "weaknesses"}
        /\ IsStr(result) =>
              /\ analysis.caught = NoExc
              /\ \A key \in Keys :
                    \A a \in {AfterHeader(Header[key], result.chars)} :
                        /\ IsStr(analysis.val[key])
                        /\ IF a = -1 \/ a = Len(result.chars)
                           THEN analysis.val[key].chars = NamedDefault(key, result.chars)
                           ELSE IsSectionText(analysis.val[key].chars, result.chars, a,
                                              StopHeader[key])

\* a result with text after "Skills Match:", with "Weaknesses:" as its last
\* characters and without "Overall Score:": the first is the stripped text,
\* the other two are defaults
C16_Witness ==
    /\ Parsed
    /\ IsStr(result)
    /\ AfterHeader(Header.skills_match, result.chars) \in 0..(Len(result.chars) - 1)
    /\ AfterHeader(Header.weaknesses, result.chars) = Len(result.chars)
    /\ AfterHeader(Header.overall_score, result.chars) = -1
    /\ analysis.val.skills_match.chars # <<>>
    /\ analysis.val.skills_match.chars[1] = "g"
    /\ analysis.val.weaknesses = Str(<<"S", "e", "e", " ", "i", "m", "p", "r", "o", "v", "e", "m", "e", "n", "t", " ", "t", "i", "p", "s">>)
    /\ analysis.val.overall_score = Str(<<"N", "/", "A">>)

\* a text without whitespace at either end
IsStripped(text) ==
    text = <<>> \/ (text[1] \notin Whitespace /\ text[Len(text)] \notin Whitespace)

\* C18: extract_text calls PyMuPDF first and, when it returns, returns its
\* stripped text without calling pdfminer; pdfminer is called only after
\* PyMuPDF raised, and reads the whole file whatever PyMuPDF read of it;
\* extract_text raises exactly when both raised, and the error it raises
\* carries both exceptions.
C18_ExtractFallbackOrder ==
    /\ extraction.pc \in {"except", "done"} => extraction.pymupdf.called
    /\ extraction.pdfminer.called =>
          /\ extraction.pymupdf.called
          /\ extraction.pymupdf.exc # NoExc
          /\ extraction.pdfminer.bytes = pdf_file.content
    /\ (extraction.pc = "done" /\ extraction.pymupdf.exc = NoExc) =>
          /\ ~extraction.pdfminer.called
          /\ extraction.out = Return(Strip(PagesText(extraction.pymupdf.bytes)))
          /\ IsStripped(extraction.out.val)
    /\ (extraction.pc = "done" /\ extraction.pdfminer.called
            /\ extraction.pdfminer.exc = NoExc) =>
          /\ extraction.out = Return(Strip(PagesText(pdf_file.content)))
          /\ IsStripped(extraction.out.val)
    /\ extraction.pc = "done" =>
          (extraction.out.exc # NoExc <=>
              (/\ extraction.pymupdf.exc # NoExc
               /\ extraction.pdfminer.called
               /\ extraction.pdfminer.exc # NoExc))
    /\ extraction.out.exc # NoExc =>
          /\ extraction.out.val[2] = extraction.pymupdf.exc
          /\ extraction.out.val[4] = extraction.pdfminer.exc

\* a file of two pages handed over with its position after the first:
\* PyMuPDF read the second page and raised, pdfminer read both pages and
\* returned their text
C18_Witness ==
    /\ extraction.pc = "done"
    /\ Len(pdf_file.content) = 2
    /\ Len(extraction.pymupdf.bytes) = 1
    /\ extraction.pymupdf.exc # NoExc
    /\ extraction.pdfminer.called
    /\ extraction.pdfminer.exc = NoExc
    /\ Len(extraction.pdfminer.bytes) = 2
    /\ extraction.out.exc = NoExc
    /\ Len(extraction.out.val) > Len(Strip(pdf_file.content[2]))

====
